---- MODULE Spec2Model ----
(***************************************************************************)
(* State-machine model of the SMH Huddle Recordings MCP server             *)
(* (src/smh-huddle-recordings-mcpb/server/main.py): process start-up, the  *)
(* request gateway make_api_request with its retry/backoff loop, and the   *)
(* two tool operations list_recordings and get_recording.                  *)
(*                                                                         *)
(* Python values are tagged records (JStr, JNum, JBool, JNull, JArr, JObj);*)
(* a dict is the sequence of its key/value pairs in insertion order.       *)
(* Python strings are TLA+ strings.  A string returned by json.dumps is    *)
(* represented by the value it encodes ([kind |-> "returned", json |-> v]).*)
(***************************************************************************)
EXTENDS Integers, Sequences, FiniteSets, TLC

VARIABLES
    proc,   \* the server process: environment, start-up position, configuration
    inv     \* the tool invocations: one record of locals per invocation

vars == <<proc, inv>>

----------------------------------------------------------------------------
(* Program constants                                                       *)

MAX_RETRIES == 3
DEFAULT_TIMEOUT == 30
RECORDING_TIMEOUT == 60
BODY_EXCERPT == 200
LIMIT_MIN == 1
LIMIT_MAX == 100

(* Bounds of the model                                                     *)

MaxIdLen == 2        \* longest recording_id the host supplies
MaxSkip == 1         \* largest skip the host supplies
MinArg == 2          \* skip and limit range down to -MinArg
LimitSlack == 2      \* limit ranges up to LIMIT_MAX + LimitSlack
LongBodyLen == 250   \* length of the longest response body text

----------------------------------------------------------------------------
(* Python values                                                           *)

JNull == [t |-> "null"]
JStr(s) == [t |-> "str", s |-> s]
JNum(n) == [t |-> "num", n |-> n]
JBool(b) == [t |-> "bool", b |-> b]
JArr(items) == [t |-> "arr", items |-> items]
JObj(kv) == [t |-> "obj", kv |-> kv]
KV(k, v) == [k |-> k, v |-> v]

Min(a, b) == IF a <= b THEN a ELSE b

\* s[:n]
Prefix(s, n) == SubSeq(s, 1, Min(n, Len(s)))

\* sub in s, for strings
Contains(sub, s) ==
    \E i \in 1..(Len(s) - Len(sub) + 1) : SubSeq(s, i, i + Len(sub) - 1) = sub

\* bool(v): the truth value of a Python value
Truthy(v) ==
    CASE v.t = "null" -> FALSE
      [] v.t = "str" -> v.s /= ""
      [] v.t = "num" -> v.n /= 0
      [] v.t = "bool" -> v.b
      [] v.t = "arr" -> v.items /= <<>>
      [] v.t = "obj" -> v.kv /= <<>>

\* str(v), as an f-string formats a value (scalars only)
PyStr(v) ==
    CASE v.t = "null" -> "None"
      [] v.t = "str" -> v.s
      [] v.t = "num" -> ToString(v.n)
      [] v.t = "bool" -> IF v.b THEN "True" ELSE "False"
      [] OTHER -> "<container>"

\* str(x) of a float x that holds a whole number: 30.0 -> "30.0"
FloatStr(n) == ToString(n) \o ".0"

Whitespace == {" ", "\t", "\n"}

RECURSIVE LStrip(_)
LStrip(s) ==
    IF Len(s) > 0 /\ SubSeq(s, 1, 1) \in Whitespace
    THEN LStrip(SubSeq(s, 2, Len(s)))
    ELSE s

RECURSIVE RStrip(_)
RStrip(s) ==
    IF Len(s) > 0 /\ SubSeq(s, Len(s), Len(s)) \in Whitespace
    THEN RStrip(SubSeq(s, 1, Len(s) - 1))
    ELSE s

Strip_LeadingOnly(s) == LStrip(s)

\* s.strip()
Strip(s) == LStrip(RStrip(s))

\* s.rstrip("/")
RECURSIVE RStripSlash(_)
RStripSlash(s) ==
    IF Len(s) > 0 /\ SubSeq(s, Len(s), Len(s)) = "/"
    THEN RStripSlash(SubSeq(s, 1, Len(s) - 1))
    ELSE s

\* key in d, for a dict
DictHas(d, key) == \E i \in 1..Len(d.kv) : d.kv[i].k = key

\* d[key], for a dict that has the key
DictGet(d, key) == d.kv[CHOOSE i \in 1..Len(d.kv) : d.kv[i].k = key].v

\* d[key] = v: replaces the value in place when the key exists, appends otherwise
DictSet(d, key, v) ==
    IF DictHas(d, key)
    THEN JObj([i \in 1..Len(d.kv) |->
                  IF d.kv[i].k = key THEN KV(key, v) ELSE d.kv[i]])
    ELSE JObj(Append(d.kv, KV(key, v)))

----------------------------------------------------------------------------
(* The environment: what the host and the remote API can supply            *)

RECURSIVE Repeat(_, _)
Repeat(ch, n) ==
    IF n = 0 THEN ""
    ELSE IF n = 1 THEN ch
    ELSE Repeat(ch, n \div 2) \o Repeat(ch, n - (n \div 2))

RECURSIVE StrsOfLen(_, _)
StrsOfLen(alphabet, n) ==
    IF n = 0 THEN {""}
    ELSE {ch \o s : ch \in alphabet, s \in StrsOfLen(alphabet, n - 1)}

\* os.getenv results: None, or a string
EnvBaseUrls == {JNull, JStr(""), JStr("https://api.test"), JStr("https://api.test/")}
EnvApiKeys == {JNull, JStr(""), JStr("k1")}

\* arguments the host passes to the tools
SkipArgs == (0 - MinArg)..MaxSkip
LimitArgs ==
    {l \in (0 - MinArg)..(LIMIT_MAX + LimitSlack) :
        l <= LIMIT_MIN + 1 \/ l >= LIMIT_MAX - 1}
PeriodArgs == {JNull, JStr(""), JStr("week")}
IdAlphabet == {" ", "\t", "r"}
RecordingIds == UNION {StrsOfLen(IdAlphabet, n) : n \in 0..MaxIdLen}

\* datetime.utcnow().isoformat()
Timestamps == {"2025-01-01T00:00:00"}

\* a response body: its text, whether response.json() parses it, and the value
Body(text, parses, value) == [text |-> text, parses |-> parses, value |-> value]
NoBody == Body("", FALSE, JNull)

Bodies ==
    { Body("{\"message\":\"not found\"}", TRUE,
           JObj(<<KV("message", JStr("not found"))>>)),
      Body("{\"code\":7,\"message\":null}", TRUE,
           JObj(<<KV("code", JNum(7)), KV("message", JNull)>>)),
      Body("{\"error\":\"boom\"}", TRUE,
           JObj(<<KV("error", JStr("boom"))>>)),
      Body("<html>Bad Gateway</html>", FALSE, JNull),
      Body(Repeat("x", LongBodyLen), FALSE, JNull),
      Body("", FALSE, JNull),
      Body("[\"message\"]", TRUE, JArr(<<JStr("message")>>)),
      Body("[1]", TRUE, JArr(<<JNum(1)>>)),
      Body("\"error message\"", TRUE, JStr("error message")),
      Body("\"boom\"", TRUE, JStr("boom")),
      Body("null", TRUE, JNull),
      Body("{\"id\":\"r1\",\"transcript\":[]}", TRUE,
           JObj(<<KV("id", JStr("r1")), KV("transcript", JArr(<<>>))>>)),
      Body("{\"id\":\"r1\",\"tldr\":\"t\"}", TRUE,
           JObj(<<KV("id", JStr("r1")), KV("tldr", JStr("t"))>>)),
      Body("{\"_usage_hint\":\"old\",\"transcript\":[]}", TRUE,
           JObj(<<KV("_usage_hint", JStr("old")), KV("transcript", JArr(<<>>))>>)) }

Statuses == {200, 404, 500}

\* what one attempt's `await client.request(...)` ends in:
\*   "response"       a response arrives (any status, any body)
\*   "timeout"        httpx.TimeoutException
\*   "request_error"  any other httpx.RequestError (network/connection failure)
\*   "fault"          any other Exception
Outcome(kind, status, body, detail) ==
    [kind |-> kind, status |-> status, body |-> body, detail |-> detail]

Outcomes ==
    {Outcome("response", st, b, "") : st \in Statuses, b \in Bodies}
    \cup {Outcome("timeout", 0, NoBody, "")}
    \cup {Outcome("request_error", 0, NoBody, "Connection refused")}
    \cup {Outcome("fault", 0, NoBody, "boom")}

----------------------------------------------------------------------------
(* make_api_request: one pass through the body of the retry loop           *)

Return(data) == [kind |-> "return", data |-> data, msg |-> ""]
Raise(msg) == [kind |-> "raise", data |-> JNull, msg |-> msg]
Continue == [kind |-> "continue", data |-> JNull, msg |-> ""]
NoGw == [kind |-> "none", data |-> JNull, msg |-> ""]

\* response.raise_for_status() passes
is_success(status) == 200 <= status /\ status <= 299

\* `"message" in error_data` followed by `error_data['message']`:
\* "value" when both succeed, "absent" when `in` is False, "error" when either
\* raises (a list or str that holds "message" cannot be indexed by it; `in` on
\* a number, bool or None raises TypeError)
MessageLookup(d) ==
    CASE d.t = "obj" -> IF DictHas(d, "message") THEN "value" ELSE "absent"
      [] d.t = "arr" ->
            IF \E i \in 1..Len(d.items) : d.items[i] = JStr("message")
            THEN "error" ELSE "absent"
      [] d.t = "str" -> IF Contains("message", d.s) THEN "error" ELSE "absent"
      [] OTHER -> "error"

\* the except httpx.HTTPStatusError clause: the message it raises
HttpErrorMsg(status, body) ==
    LET error_msg == "API returned error status " \o ToString(status)
        excerpt == error_msg \o ": " \o Prefix(body.text, BODY_EXCERPT)
    IN  IF ~body.parses THEN excerpt
        ELSE CASE MessageLookup(body.value) = "value" ->
                    error_msg \o ": " \o PyStr(DictGet(body.value, "message"))
               [] MessageLookup(body.value) = "absent" -> error_msg
               [] OTHER -> excerpt

TimeoutMsg_Default(timeout) ==
    "Request timed out after " \o FloatStr(DEFAULT_TIMEOUT)
        \o " seconds. The API server may be slow or unreachable."

\* the message of the exception raised when the last attempt times out
TimeoutMsg(timeout) ==
    "Request timed out after " \o FloatStr(timeout)
        \o " seconds. The API server may be slow or unreachable."

\* the try block and its except clauses, for the outcome o of attempt `attempt`
TryExcept(o, attempt, timeout) ==
    CASE o.kind = "response" ->
            IF ~is_success(o.status) THEN Raise(HttpErrorMsg(o.status, o.body))
            ELSE IF ~o.body.parses THEN Raise("API returned invalid JSON response")
            ELSE Return(o.body.value)
      [] o.kind = "timeout" ->
            IF attempt = MAX_RETRIES - 1 THEN Raise(TimeoutMsg(timeout))
            ELSE Continue
      [] o.kind = "request_error" ->
            IF attempt = MAX_RETRIES - 1
            THEN Raise("Failed to connect to API: " \o o.detail)
            ELSE Continue
      [] OTHER -> Raise("Unexpected error occurred: " \o o.detail)

\* variants of the loop body with one handler changed
AttemptResult_RetryOnFault(o, attempt, timeout) ==
    IF o.kind = "fault" /\ attempt < MAX_RETRIES - 1 THEN Continue
    ELSE TryExcept(o, attempt, timeout)

AttemptResult_RetryOnStatus(o, attempt, timeout) ==
    IF o.kind = "response" /\ ~is_success(o.status) /\ attempt < MAX_RETRIES - 1
    THEN Continue
    ELSE TryExcept(o, attempt, timeout)

AttemptResult_RetryOnBadJson(o, attempt, timeout) ==
    IF o.kind = "response" /\ is_success(o.status) /\ ~o.body.parses
       /\ attempt < MAX_RETRIES - 1
    THEN Continue
    ELSE TryExcept(o, attempt, timeout)

AttemptResult_TimeoutAsRequestError(o, attempt, timeout) ==
    IF o.kind = "timeout" /\ attempt = MAX_RETRIES - 1
    THEN Raise("Failed to connect to API: " \o o.detail)
    ELSE TryExcept(o, attempt, timeout)

AttemptResult_TimeoutNeverRaises(o, attempt, timeout) ==
    IF o.kind = "timeout" THEN Continue ELSE TryExcept(o, attempt, timeout)

\* one pass through the loop body: return, raise, or fall through to the backoff
AttemptResult(o, attempt, timeout) == TryExcept(o, attempt, timeout)

RECURSIVE Pow2(_)
Pow2(n) == IF n = 0 THEN 1 ELSE 2 * Pow2(n - 1)

\* `if attempt < MAX_RETRIES - 1: await asyncio.sleep(2 ** attempt)`

SleepsAfter_OffByOne(attempt) == attempt < MAX_RETRIES - 2

\* whether a backoff sleep follows a failed attempt
SleepsAfter(attempt) == attempt < MAX_RETRIES - 1

Backoff_Linear(attempt) == 2 * attempt

\* the sleep duration, 2 ** attempt
Backoff(attempt) == Pow2(attempt)

----------------------------------------------------------------------------
(* Tool operations: what they hand back to the host                        *)

\* json.dumps(v, ...): the returned string, represented by the value it encodes
Returned(v) == [kind |-> "returned", json |-> v]
\* an exception that leaves the tool function
Escaped(msg) == [kind |-> "raised", json |-> JStr(msg)]
NoResult == [kind |-> "none", json |-> JNull]

InvalidParameter(message) ==
    Returned(JObj(<<KV("error", JStr("Invalid parameter")),
                    KV("message", JStr(message))>>))

UsageHint ==
    "Create summaries from the diarized transcript. "
        \o "Format: Name, What was done, Problems, Plans, Agreements"

\* variants of the validations and of the except clause
list_recordings_invalid_NoUpperBound(skip, limit) ==
    IF skip < 0 THEN "skip must be non-negative"
    ELSE IF limit < LIMIT_MIN THEN "limit must be between 1 and 100"
    ELSE ""

get_recording_invalid_NoStrip(recording_id) == recording_id = ""

list_recordings_except_Escapes(msg, ts) == Escaped(msg)

get_recording_except_NoId(msg, recording_id, ts) ==
    Returned(JObj(<<KV("error", JStr("Failed to fetch recording")),
                    KV("message", JStr(msg)),
                    KV("timestamp", JStr(ts))>>))

\* list_recordings, "Validate parameters": the message of the validation error
\* returned, "" when the parameters pass
list_recordings_invalid(skip, limit) ==
    IF skip < 0 THEN "skip must be non-negative"
    ELSE IF limit < LIMIT_MIN \/ limit > LIMIT_MAX
    THEN "limit must be between 1 and 100"
    ELSE ""

\* get_recording, `if not recording_id or not recording_id.strip()`
get_recording_invalid(recording_id) ==
    recording_id = "" \/ Strip(recording_id) = ""

list_recordings_params_PeriodIfNotNone(skip, limit, period) ==
    LET params == JObj(<<KV("skip", JNum(skip)), KV("limit", JNum(limit)),
                         KV("simplified", JBool(TRUE))>>)
    IN  IF period # JNull THEN DictSet(params, "period", period) ELSE params

\* list_recordings, "Build query parameters"
list_recordings_params(skip, limit, period) ==
    LET params == JObj(<<KV("skip", JNum(skip)), KV("limit", JNum(limit)),
                         KV("simplified", JBool(TRUE))>>)
    IN  IF Truthy(period) THEN DictSet(params, "period", period) ELSE params

\* list_recordings, after make_api_request returned `data`
list_recordings_return(data) == Returned(data)

\* list_recordings, `except Exception as e` with str(e) = msg
list_recordings_except(msg, ts) ==
    Returned(JObj(<<KV("error", JStr("Failed to fetch recordings")),
                    KV("message", JStr(msg)),
                    KV("timestamp", JStr(ts))>>))

\* get_recording, after make_api_request returned `data`
get_recording_return(data) ==
    IF data.t = "obj" /\ DictHas(data, "transcript")
    THEN Returned(DictSet(data, "_usage_hint", JStr(UsageHint)))
    ELSE Returned(data)

\* get_recording, `except Exception as e` with str(e) = msg
get_recording_except(msg, recording_id, ts) ==
    Returned(JObj(<<KV("error", JStr("Failed to fetch recording")),
                    KV("message", JStr(msg)),
                    KV("recording_id", JStr(recording_id)),
                    KV("timestamp", JStr(ts))>>))

----------------------------------------------------------------------------
(* State                                                                   *)

\* the locals of one tool invocation
IdleCall ==
    [ pc |-> "idle",            \* idle, awaiting, sleeping, done, cancelled
      cancel_sent |-> FALSE,    \* the host has cancelled this invocation
      tool |-> "none",
      skip |-> 0, limit |-> 0, period |-> JNull,
      arg_id |-> "",            \* recording_id as the host passed it
      recording_id |-> "",      \* the local recording_id (rebound by strip)
      method |-> "", endpoint |-> "", params |-> JObj(<<>>), timeout |-> 0,
      attempt |-> 0,            \* the loop variable of make_api_request
      sent |-> <<>>,            \* the HTTP requests issued, in order
      waits |-> <<>>,           \* the asyncio.sleep durations, in order
      outcomes |-> <<>>,        \* what each attempt ended in, in order
      gw |-> NoGw,              \* how make_api_request ended
      result |-> NoResult ]     \* what the tool handed to the host

Calls == DOMAIN inv

RECURSIVE SeqSum(_)
SeqSum(q) == IF q = <<>> THEN 0 ELSE Head(q) + SeqSum(Tail(q))

\* a variant in which one deadline covers the whole call
Request_SharedDeadline(c) ==
    [ client |-> Len(c.sent) + 1,
      method |-> c.method,
      url |-> proc.API_BASE_URL \o c.endpoint,
      headers |-> JObj(<<KV("X-API-Key", JStr(proc.API_KEY))>>),
      params |-> c.params,
      timeout |-> c.timeout - SeqSum(c.waits) ]

\* the request one attempt issues through a fresh httpx.AsyncClient(timeout=...);
\* client numbers the AsyncClient objects the invocation has constructed
Request(c) ==
    [ client |-> Len(c.sent) + 1,
      method |-> c.method,
      url |-> proc.API_BASE_URL \o c.endpoint,
      headers |-> JObj(<<KV("X-API-Key", JStr(proc.API_KEY))>>),
      params |-> c.params,
      timeout |-> c.timeout ]

\* the tool function's continuation once make_api_request has ended as gw
Finish(c, gw, ts) ==
    [c EXCEPT
        !.pc = "done",
        !.gw = gw,
        !.result =
            IF c.tool = "list_recordings"
            THEN IF gw.kind = "return" THEN list_recordings_return(gw.data)
                 ELSE list_recordings_except(gw.msg, ts)
            ELSE IF gw.kind = "return" THEN get_recording_return(gw.data)
                 ELSE get_recording_except(gw.msg, c.recording_id, ts)]

\* a variant in which the attempts are counted in one module-level counter
\* shared by all invocations
Iterate_SharedCounter(c, attempt, ts) ==
    IF SeqSum([j \in 1..Len(inv) |-> Len(inv[j].sent)]) < MAX_RETRIES
    THEN LET d == [c EXCEPT !.attempt = attempt]
         IN  [d EXCEPT !.pc = "awaiting", !.sent = Append(c.sent, Request(d))]
    ELSE Finish(c, Raise("Failed to complete request after all retries"), ts)

\* entering iteration `attempt` of `for attempt in range(MAX_RETRIES)`: the
\* request is issued, or the range is exhausted and the final raise is reached
Iterate(c, attempt, ts) ==
    IF attempt < MAX_RETRIES
    THEN LET d == [c EXCEPT !.attempt = attempt]
         IN  [d EXCEPT !.pc = "awaiting", !.sent = Append(c.sent, Request(d))]
    ELSE Finish(c, Raise("Failed to complete request after all retries"), ts)

\* make_api_request(method, endpoint, params, timeout), up to its first await
make_api_request(c, method, endpoint, params, timeout, ts) ==
    Iterate([c EXCEPT !.method = method, !.endpoint = endpoint,
                      !.params = params, !.timeout = timeout], 0, ts)

Init ==
    /\ \E base \in EnvBaseUrls, key \in EnvApiKeys :
          proc = [ state |-> "starting", exit_code |-> 0,
                   env |-> [API_BASE_URL |-> base, API_KEY |-> key],
                   API_BASE_URL |-> "", API_KEY |-> "" ]
    /\ inv = [i \in {1} |-> IdleCall]

----------------------------------------------------------------------------
(* Actions                                                                 *)

ConfigValid_NoneOnly(env) ==
    env.API_BASE_URL.t = "str" /\ env.API_KEY.t = "str"

\* "Validate required environment variables": neither `if not ...` exits
ConfigValid(env) == Truthy(env.API_BASE_URL) /\ Truthy(env.API_KEY)

\* module start-up: configuration is read and validated, then mcp.run serves
Startup ==
    /\ proc.state = "starting"
    /\ proc' =
          IF ~ConfigValid(proc.env)
          THEN [proc EXCEPT !.state = "exited", !.exit_code = 1]
          ELSE [proc EXCEPT !.state = "serving",
                            !.API_BASE_URL = RStripSlash(proc.env.API_BASE_URL.s),
                            !.API_KEY = proc.env.API_KEY.s]
    /\ UNCHANGED inv

\* the host invokes list_recordings(skip, limit, period)
list_recordings(i, skip, limit, period, ts) ==
    /\ proc.state = "serving"
    /\ inv[i].pc = "idle"
    /\ LET c == [inv[i] EXCEPT !.tool = "list_recordings", !.skip = skip,
                               !.limit = limit, !.period = period]
           params == list_recordings_params(skip, limit, period)
       IN  inv' = [inv EXCEPT ![i] =
              IF list_recordings_invalid(skip, limit) # ""
              THEN [c EXCEPT !.pc = "done",
                             !.result = InvalidParameter(
                                 list_recordings_invalid(skip, limit))]
              ELSE make_api_request(c, "GET", "/recordings", params,
                                    DEFAULT_TIMEOUT, ts)]
    /\ UNCHANGED proc

\* the host invokes get_recording(recording_id)
get_recording(i, recording_id, ts) ==
    /\ proc.state = "serving"
    /\ inv[i].pc = "idle"
    /\ LET c == [inv[i] EXCEPT !.tool = "get_recording", !.arg_id = recording_id,
                               !.recording_id = recording_id]
       IN  inv' = [inv EXCEPT ![i] =
              IF get_recording_invalid(recording_id)
              THEN [c EXCEPT !.pc = "done",
                             !.result = InvalidParameter(
                                 "recording_id is required and cannot be empty")]
              ELSE make_api_request(
                      [c EXCEPT !.recording_id = Strip(recording_id)],
                      "GET", "/recordings/" \o Strip(recording_id),
                      JObj(<<KV("simplified", JBool(TRUE))>>),
                      RECORDING_TIMEOUT, ts)]
    /\ UNCHANGED proc

\* the pending attempt of invocation i ends in outcome o
Respond(i, o, ts) ==
    /\ inv[i].pc = "awaiting"
    /\ LET c == [inv[i] EXCEPT !.outcomes = Append(@, o)]
           r == AttemptResult(o, c.attempt, c.timeout)
       IN  inv' = [inv EXCEPT ![i] =
              IF r.kind # "continue" THEN Finish(c, r, ts)
              ELSE IF SleepsAfter(c.attempt)
              THEN [c EXCEPT !.pc = "sleeping",
                             !.waits = Append(@, Backoff(c.attempt))]
              ELSE Iterate(c, c.attempt + 1, ts)]
    /\ UNCHANGED proc

\* the backoff sleep of invocation i elapses: the loop goes round
Wake(i, ts) ==
    /\ inv[i].pc = "sleeping"
    /\ inv' = [inv EXCEPT ![i] = Iterate(inv[i], inv[i].attempt + 1, ts)]
    /\ UNCHANGED proc

\* a variant in which `except Exception` catches the cancellation
OnCancel_Caught(c) ==
    Finish(c, Raise("Unexpected error occurred: "), CHOOSE ts \in Timestamps : TRUE)

\* asyncio.CancelledError raised at the pending await: it is a BaseException,
\* so neither make_api_request's nor the tool's `except Exception` catches it
\* and the coroutine ends without a result
OnCancel(c) == [c EXCEPT !.pc = "cancelled"]

\* the host cancels invocation i while it is suspended at an await
Cancel(i) ==
    /\ inv[i].pc \in {"awaiting", "sleeping"}
    /\ inv' = [inv EXCEPT ![i] = OnCancel([inv[i] EXCEPT !.cancel_sent = TRUE])]
    /\ UNCHANGED proc

Next ==
    \/ Startup
    \/ \E i \in Calls, skip \in SkipArgs, limit \in LimitArgs,
          period \in PeriodArgs, ts \in Timestamps :
          list_recordings(i, skip, limit, period, ts)
    \/ \E i \in Calls, recording_id \in RecordingIds, ts \in Timestamps :
          get_recording(i, recording_id, ts)
    \/ \E i \in Calls, o \in Outcomes, ts \in Timestamps : Respond(i, o, ts)
    \/ \E i \in Calls, ts \in Timestamps : Wake(i, ts)
    \/ \E i \in Calls : Cancel(i)

Spec == Init /\ [][Next]_vars

\* the same program when every awaited request and every asyncio.sleep ends
FairSpec ==
    /\ Spec
    /\ WF_vars(\E i \in Calls, o \in Outcomes, ts \in Timestamps : Respond(i, o, ts))
    /\ WF_vars(\E i \in Calls, ts \in Timestamps : Wake(i, ts))

----------------------------------------------------------------------------
(* Concurrent invocations: the event loop interleaves several tool         *)
(* coroutines, each suspended at its own awaits                            *)

MaxConcurrent == 2   \* invocations in progress at the same time

ConcLimits == {LIMIT_MIN - 1, LIMIT_MIN}
ConcIds == {" r"}
ConcOutcomes ==
    { o \in Outcomes :
        \/ o.kind = "timeout"
        \/ o.kind = "response" /\ o.status = 200
              /\ o.body.text = "{\"id\":\"r1\",\"transcript\":[]}"
        \/ o.kind = "response" /\ o.status = 404
              /\ o.body.text = "{\"message\":\"not found\"}" }

ConcInit ==
    /\ proc = [ state |-> "starting", exit_code |-> 0,
                env |-> [API_BASE_URL |-> JStr("https://api.test/"),
                         API_KEY |-> JStr("k1")],
                API_BASE_URL |-> "", API_KEY |-> "" ]
    /\ inv = [i \in 1..MaxConcurrent |-> IdleCall]

ConcNext ==
    \/ Startup
    \/ \E i \in Calls, limit \in ConcLimits, ts \in Timestamps :
          list_recordings(i, 0, limit, JStr("week"), ts)
    \/ \E i \in Calls, recording_id \in ConcIds, ts \in Timestamps :
          get_recording(i, recording_id, ts)
    \/ \E i \in Calls, o \in ConcOutcomes, ts \in Timestamps : Respond(i, o, ts)
    \/ \E i \in Calls, ts \in Timestamps : Wake(i, ts)
    \/ \E i \in Calls : Cancel(i)

ConcSpec == ConcInit /\ [][ConcNext]_vars

----------------------------------------------------------------------------
(* Properties of the request gateway                                       *)

Retryable(o) == o.kind \in {"timeout", "request_error"}
ErrorStatus(o) == o.kind = "response" /\ ~(200 <= o.status /\ o.status <= 299)
BadJson(o) == o.kind = "response" /\ 200 <= o.status /\ o.status <= 299 /\ ~o.body.parses
GoodJson(o) == o.kind = "response" /\ 200 <= o.status /\ o.status <= 299 /\ o.body.parses

\* the "message" entry of a returned payload, "" when it has none
ResultMessage(c) ==
    IF c.result.kind = "returned" /\ c.result.json.t = "obj"
       /\ DictHas(c.result.json, "message")
       /\ DictGet(c.result.json, "message").t = "str"
    THEN DictGet(c.result.json, "message").s
    ELSE ""

\* the payload is one of the error objects the except clauses build
IsFailurePayload(v) ==
    /\ v.t = "obj"
    /\ DictHas(v, "error")
    /\ DictGet(v, "error") \in {JStr("Failed to fetch recordings"),
                                JStr("Failed to fetch recording")}

\* C1: one make_api_request call issues at most 3 HTTP attempts; attempt n+1
\* is issued only after attempt n ended in a timeout or a network/connection
\* error; after a success, an HTTP error status, a JSON parse failure or any
\* other exception no further attempt is issued.
C1_BoundedRetry ==
    \A i \in Calls :
        LET c == inv[i] IN
        /\ Len(c.sent) <= 3
        /\ Len(c.sent) <= Len(c.outcomes) + 1
        /\ \A n \in 2..Len(c.sent) : Retryable(c.outcomes[n - 1])
        /\ \A n \in 1..Len(c.outcomes) :
              ~Retryable(c.outcomes[n]) =>
                  Len(c.sent) = n /\ Len(c.outcomes) = n /\ c.pc = "done"

\* a call that used all three attempts: two retryable failures, then a response
C1_Witness ==
    \E i \in Calls :
        /\ Len(inv[i].sent) = 3
        /\ inv[i].outcomes[1].kind = "timeout"
        /\ inv[i].outcomes[2].kind = "request_error"
        /\ Len(inv[i].outcomes) = 3
        /\ inv[i].outcomes[3].kind = "response"
        /\ inv[i].pc = "done"

\* C2: an attempt that receives an HTTP error status fails the call on that
\* attempt, with no retry and no backoff wait after it; a first-attempt 404
\* with body {"message":"not found"} issues exactly one request and surfaces
\* "API returned error status 404: not found".
C2_StatusFailsAtOnce ==
    \A i \in Calls :
        LET c == inv[i] IN
        \A n \in 1..Len(c.outcomes) :
            ErrorStatus(c.outcomes[n]) =>
                /\ c.pc = "done"
                /\ c.gw.kind = "raise"
                /\ Len(c.outcomes) = n
                /\ Len(c.sent) = n
                /\ Len(c.waits) = n - 1
                /\ (/\ n = 1
                    /\ c.outcomes[1].status = 404
                    /\ c.outcomes[1].body.text = "{\"message\":\"not found\"}")
                   => /\ c.gw.msg = "API returned error status 404: not found"
                      /\ ResultMessage(c) = "API returned error status 404: not found"

C2_Witness ==
    \E i \in Calls :
        /\ inv[i].pc = "done"
        /\ Len(inv[i].outcomes) = 1
        /\ inv[i].outcomes[1].kind = "response"
        /\ inv[i].outcomes[1].status = 404
        /\ inv[i].outcomes[1].body.text = "{\"message\":\"not found\"}"
        /\ Len(inv[i].sent) = 1

\* the last outcome of a call that ended on an HTTP error status
LastOutcome(c) == c.outcomes[Len(c.outcomes)]
StatusPrefix(o) == "API returned error status " \o ToString(o.status)
HasMessageField(b) == b.parses /\ b.value.t = "obj" /\ DictHas(b.value, "message")

\* C3 (as stated): for every HTTP error-status response the failure message
\* carries the body's `message` field when the body has one, and otherwise
\* (whether or not the body parses as JSON) an excerpt of the raw body of at
\* most 200 characters.
C3_MessageOrExcerpt ==
    \A i \in Calls :
        LET c == inv[i] IN
        (c.pc = "done" /\ c.outcomes # <<>> /\ ErrorStatus(LastOutcome(c))) =>
            LET o == LastOutcome(c) IN
            IF HasMessageField(o.body)
            THEN c.gw.msg = StatusPrefix(o) \o ": "
                                \o PyStr(DictGet(o.body.value, "message"))
            ELSE \E k \in 0..200 :
                    /\ k <= Len(o.body.text)
                    /\ (k < 200 => k = Len(o.body.text))
                    /\ c.gw.msg = StatusPrefix(o) \o ": " \o SubSeq(o.body.text, 1, k)

\* C4 (as stated): a retryable failure of attempt 0, 1 or 2 is followed by a
\* wait of 2^attempt time units: 1, 2, 4 for attempts 0, 1, 2.
C4_WaitAfterEveryFailure ==
    \A i \in Calls :
        LET c == inv[i] IN
        \A n \in 1..Len(c.outcomes) :
            Retryable(c.outcomes[n]) =>
                /\ Len(c.waits) >= n
                /\ c.waits[n] = (CASE n = 1 -> 1 [] n = 2 -> 2 [] OTHER -> 4)

\* C4 (amended): the waits of one call are 1 time unit after a retryable
\* failure of attempt 0 and 2 time units after one of attempt 1, exactly, and
\* nothing else: no wait follows attempt 2, so no 4-unit wait occurs.
C4_BackoffOneThenTwo ==
    \A i \in Calls :
        LET c == inv[i]
            failed == Cardinality({n \in 1..Len(c.outcomes) : Retryable(c.outcomes[n])})
        IN  /\ c.waits \in {<<>>, <<1>>, <<1, 2>>}
            /\ Len(c.waits) = Min(failed, 2)

\* a call whose three attempts all failed: it waited 1, then 2, and not after
\* the third failure
C4_Witness ==
    \E i \in Calls :
        /\ inv[i].pc = "done"
        /\ Len(inv[i].outcomes) = 3
        /\ Retryable(inv[i].outcomes[3])
        /\ inv[i].waits = <<1, 2>>

\* C5: when the remote times out on the first 2 attempts and succeeds on the
\* 3rd, make_api_request returns the parsed payload, the tool returns a success
\* payload (not an error payload), and the waits are exactly 1 then 2.
C5_ThirdAttemptSucceeds ==
    \A i \in Calls :
        LET c == inv[i] IN
        (/\ Len(c.outcomes) = 3
         /\ c.outcomes[1].kind = "timeout"
         /\ c.outcomes[2].kind = "timeout"
         /\ GoodJson(c.outcomes[3]))
        => /\ c.pc = "done"
           /\ c.gw.kind = "return"
           /\ c.gw.data = c.outcomes[3].body.value
           /\ c.result.kind = "returned"
           /\ ~IsFailurePayload(c.result.json)
           /\ c.waits = <<1, 2>>
           /\ Len(c.sent) = 3

C5_Witness ==
    \E i \in Calls :
        /\ Len(inv[i].outcomes) = 3
        /\ inv[i].outcomes[1].kind = "timeout"
        /\ inv[i].outcomes[2].kind = "timeout"
        /\ GoodJson(inv[i].outcomes[3])
        /\ inv[i].tool = "list_recordings"
        /\ inv[i].result.kind = "returned"

\* every attempt of the call ended in an outcome of kind k, MAX_RETRIES times
AllThree(c, k) ==
    /\ Len(c.outcomes) = 3
    /\ \A n \in 1..3 : c.outcomes[n].kind = k

\* C6: when all 3 attempts time out the call fails with the timeout error,
\* whose message includes the timeout configured for that call (30 for
\* list_recordings, 60 for get_recording); when all 3 fail with
\* network/connection errors it fails with "Failed to connect to API: ...".
C6_ExhaustedRetries ==
    \A i \in Calls :
        LET c == inv[i] IN
        /\ AllThree(c, "timeout") =>
              /\ c.pc = "done" /\ c.gw.kind = "raise"
              /\ c.gw.msg = "Request timed out after "
                    \o (IF c.tool = "get_recording" THEN "60.0" ELSE "30.0")
                    \o " seconds. The API server may be slow or unreachable."
              /\ ResultMessage(c) = c.gw.msg
        /\ AllThree(c, "request_error") =>
              /\ c.pc = "done" /\ c.gw.kind = "raise"
              /\ c.gw.msg = "Failed to connect to API: " \o c.outcomes[3].detail
              /\ ResultMessage(c) = c.gw.msg

C6_Witness ==
    \E i \in Calls :
        /\ AllThree(inv[i], "timeout")
        /\ inv[i].tool = "get_recording"
        /\ Contains("60.0", inv[i].gw.msg)

\* C7: an attempt that receives a successful status with a body that is not
\* valid JSON fails the call on that attempt with "API returned invalid JSON
\* response" and no retry, whichever attempt it is.
C7_BadJsonFailsAtOnce ==
    \A i \in Calls :
        LET c == inv[i] IN
        \A n \in 1..Len(c.outcomes) :
            BadJson(c.outcomes[n]) =>
                /\ c.pc = "done"
                /\ c.gw.kind = "raise"
                /\ c.gw.msg = "API returned invalid JSON response"
                /\ Len(c.outcomes) = n
                /\ Len(c.sent) = n
                /\ Len(c.waits) = n - 1

C7_Witness ==
    \E i \in Calls :
        /\ Len(inv[i].outcomes) = 2
        /\ Retryable(inv[i].outcomes[1])
        /\ BadJson(inv[i].outcomes[2])
        /\ inv[i].gw.msg = "API returned invalid JSON response"

----------------------------------------------------------------------------
(* Properties of the tool operations                                       *)

\* the payload is the validation error object with this message
IsValidationError(r, message) ==
    /\ r.kind = "returned"
    /\ r.json = [t |-> "obj",
                 kv |-> <<[k |-> "error", v |-> [t |-> "str", s |-> "Invalid parameter"]],
                          [k |-> "message", v |-> [t |-> "str", s |-> message]]>>]

\* C8: for every skip < 0 and every limit outside [1,100] list_recordings
\* returns a validation error ("skip must be non-negative" / "limit must be
\* between 1 and 100") and issues no gateway call; a gateway call is issued
\* only when skip >= 0 and 1 <= limit <= 100.
C8_ListValidation ==
    \A i \in Calls :
        LET c == inv[i] IN
        c.tool = "list_recordings" =>
            /\ c.skip < 0 =>
                  /\ c.pc = "done" /\ c.sent = <<>> /\ c.gw.kind = "none"
                  /\ IsValidationError(c.result, "skip must be non-negative")
            /\ (c.skip >= 0 /\ (c.limit < 1 \/ c.limit > 100)) =>
                  /\ c.pc = "done" /\ c.sent = <<>> /\ c.gw.kind = "none"
                  /\ IsValidationError(c.result, "limit must be between 1 and 100")
            /\ (c.sent # <<>> \/ c.gw.kind # "none") =>
                  c.skip >= 0 /\ 1 <= c.limit /\ c.limit <= 100

\* list_recordings was invoked with a valid skip and the first limit above 100
C8_Witness ==
    \E i \in Calls :
        /\ inv[i].tool = "list_recordings"
        /\ inv[i].skip = 0
        /\ inv[i].limit = 101
        /\ inv[i].pc = "done"
        /\ inv[i].sent = <<>>

\* every character of s is whitespace (the empty string included)
WhitespaceOnly(s) ==
    \A k \in 1..Len(s) : SubSeq(s, k, k) \in {" ", "\t", "\n"}

\* C9: for every empty or whitespace-only recording_id get_recording returns
\* the validation error "recording_id is required and cannot be empty" and
\* issues no gateway call.
C9_EmptyIdRejected ==
    \A i \in Calls :
        LET c == inv[i] IN
        (c.tool = "get_recording" /\ WhitespaceOnly(c.arg_id)) =>
            /\ c.pc = "done" /\ c.sent = <<>> /\ c.gw.kind = "none"
            /\ IsValidationError(c.result,
                                 "recording_id is required and cannot be empty")

\* get_recording was invoked with a non-empty id made of whitespace only
C9_Witness ==
    \E i \in Calls :
        /\ inv[i].tool = "get_recording"
        /\ inv[i].arg_id = " \t"
        /\ inv[i].pc = "done"

\* C10: whatever the input and the remote outcomes, an uncancelled
\* list_recordings or get_recording invocation that ends, ends by returning a
\* JSON-encoded string: every failure of make_api_request is turned into a
\* returned error payload and none leaves the tool as a raised exception.
C10_AlwaysReturnsJson ==
    \A i \in Calls :
        LET c == inv[i] IN
        /\ c.result.kind \in {"none", "returned"}
        /\ c.result.kind = "returned" <=> c.pc = "done"
        /\ c.pc \in {"idle", "awaiting", "sleeping", "done", "cancelled"}
        /\ c.gw.kind = "raise" =>
              /\ c.pc = "done"
              /\ IsFailurePayload(c.result.json)
              /\ ResultMessage(c) = c.gw.msg

\* list_recordings ended after an unexpected fault inside the request
C10_Witness ==
    \E i \in Calls :
        /\ inv[i].tool = "list_recordings"
        /\ inv[i].pc = "done"
        /\ Len(inv[i].outcomes) = 1
        /\ inv[i].outcomes[1].kind = "fault"
        /\ inv[i].result.kind = "returned"

\* the invocation ended with an error payload: a validation error (the gateway
\* was never called) or a gateway failure (make_api_request raised)
ValidationEnded(c) == c.pc = "done" /\ c.gw.kind = "none"
GatewayFailed(c) == c.pc = "done" /\ c.gw.kind = "raise"

\* the payload is a dict with a non-empty string under key
HasText(v, key) ==
    /\ v.t = "obj"
    /\ DictHas(v, key)
    /\ DictGet(v, key).t = "str"
    /\ DictGet(v, key).s # ""

\* C11 (as stated): every error payload of either operation, validation errors
\* and gateway failures alike, contains a label ("error") and a message, and
\* every error payload of get_recording also contains the recording_id.
C11_ErrorPayloadShape ==
    \A i \in Calls :
        LET c == inv[i] IN
        (ValidationEnded(c) \/ GatewayFailed(c)) =>
            /\ HasText(c.result.json, "error")
            /\ HasText(c.result.json, "message")
            /\ c.tool = "get_recording" => DictHas(c.result.json, "recording_id")

\* C11 (amended): every error payload of either operation contains a label and
\* a message; every gateway-failure payload of get_recording also contains the
\* recording_id, while the validation error of get_recording holds the label
\* and the message only.
C11_ErrorPayloadShapeByKind ==
    \A i \in Calls :
        LET c == inv[i] IN
        (ValidationEnded(c) \/ GatewayFailed(c)) =>
            /\ HasText(c.result.json, "error")
            /\ HasText(c.result.json, "message")
            /\ (c.tool = "get_recording" /\ GatewayFailed(c)) =>
                  HasText(c.result.json, "recording_id")
            /\ ValidationEnded(c) =>
                  /\ Len(c.result.json.kv) = 2
                  /\ ~DictHas(c.result.json, "recording_id")

\* get_recording failed in the gateway and echoed an id
C11_Witness ==
    \E i \in Calls :
        /\ inv[i].tool = "get_recording"
        /\ GatewayFailed(inv[i])
        /\ DictHas(inv[i].result.json, "recording_id")

\* kv, the items of one dict, occur in the dict d with their values, in order
RECURSIVE ItemsInOrder(_, _, _)
ItemsInOrder(kv, d, from) ==
    IF kv = <<>> THEN TRUE
    ELSE \E j \in from..Len(d.kv) :
            /\ d.kv[j] = Head(kv)
            /\ ItemsInOrder(Tail(kv), d, j + 1)

\* C12 (as stated): for a successful get_recording payload that is a dict with
\* a `transcript` key the output has a `_usage_hint` key and every key of the
\* payload is in the output with its original value and relative order, also
\* when the payload already carries `_usage_hint`; any other payload is
\* returned with no key added.
C12_HintIsAdditive ==
    \A i \in Calls :
        LET c == inv[i] IN
        (c.tool = "get_recording" /\ c.pc = "done" /\ c.gw.kind = "return") =>
            IF c.gw.data.t = "obj" /\ DictHas(c.gw.data, "transcript")
            THEN /\ c.result.json.t = "obj"
                 /\ DictHas(c.result.json, "_usage_hint")
                 /\ ItemsInOrder(c.gw.data.kv, c.result.json, 1)
            ELSE c.result.json = c.gw.data

\* C13: for every valid list_recordings call the parameters passed to the
\* gateway are exactly skip and limit as supplied, simplified=true, and period
\* if and only if period is a non-empty string, against endpoint /recordings.
C13_ListParams ==
    \A i \in Calls :
        LET c == inv[i]
            fixed == <<[k |-> "skip", v |-> [t |-> "num", n |-> c.skip]],
                       [k |-> "limit", v |-> [t |-> "num", n |-> c.limit]],
                       [k |-> "simplified", v |-> [t |-> "bool", b |-> TRUE]]>>
            hasPeriod == c.period.t = "str" /\ c.period.s # ""
        IN  (/\ c.tool = "list_recordings"
             /\ c.skip >= 0 /\ 1 <= c.limit /\ c.limit <= 100) =>
                /\ c.sent # <<>>
                /\ c.endpoint = "/recordings"
                /\ \A n \in 1..Len(c.sent) :
                      /\ c.sent[n].method = "GET"
                      /\ c.sent[n].url = proc.API_BASE_URL \o "/recordings"
                      /\ c.sent[n].params.t = "obj"
                      /\ c.sent[n].params.kv =
                            IF hasPeriod
                            THEN fixed \o <<[k |-> "period", v |-> c.period]>>
                            ELSE fixed

\* list_recordings was called with period="week" and sent period=week
C13_Witness ==
    \E i \in Calls :
        /\ inv[i].tool = "list_recordings"
        /\ inv[i].period = [t |-> "str", s |-> "week"]
        /\ inv[i].sent # <<>>
        /\ inv[i].sent[1].params.kv[4] = [k |-> "period", v |-> [t |-> "str", s |-> "week"]]

\* C14: once the host has cancelled an invocation that was waiting for a
\* response or for a backoff delay, the invocation issues no further attempt,
\* performs no further wait and returns no payload: the step that delivers the
\* cancellation and every later step leave its requests, waits and (absent)
\* result as they were.
C14_CancelledStaysSilent ==
    [][\A i \in Calls :
          /\ inv'[i].cancel_sent =>
                /\ inv'[i].pc = "cancelled"
                /\ inv'[i].result.kind = "none"
                /\ inv'[i].gw.kind = "none"
                /\ inv'[i].sent = inv[i].sent
                /\ inv'[i].waits = inv[i].waits
                /\ inv'[i].outcomes = inv[i].outcomes
          /\ inv[i].cancel_sent => inv'[i] = inv[i]]_vars

\* an invocation cancelled during its second backoff delay
C14_Witness ==
    \E i \in Calls :
        /\ inv[i].cancel_sent
        /\ inv[i].pc = "cancelled"
        /\ Len(inv[i].waits) = 2
        /\ Len(inv[i].sent) = 2

----------------------------------------------------------------------------
(* Properties of concurrent invocations                                    *)

\* the backoff waits a lone call has made after n retryable failures
SoloWaits(n) == SubSeq(<<1, 2>>, 1, IF n < 2 THEN n ELSE 2)

\* the payload a lone invocation returns once its gateway call ended as c.gw
SoloResult(c) ==
    \E ts \in Timestamps :
        c.result =
            IF c.tool = "list_recordings"
            THEN IF c.gw.kind = "return" THEN list_recordings_return(c.gw.data)
                 ELSE list_recordings_except(c.gw.msg, ts)
            ELSE IF c.gw.kind = "return" THEN get_recording_return(c.gw.data)
                 ELSE get_recording_except(c.gw.msg, c.recording_id, ts)

\* c is a state that the invocation reaches when it runs alone with the same
\* arguments against the same outcomes for its own requests: attempt counter,
\* requests, waits and payload are functions of c's own arguments and outcomes
Solo(c) ==
    LET k == Len(c.outcomes) IN
    \/ c.pc = "idle" /\ c = IdleCall
    \/ /\ ValidationEnded(c)
       /\ c.sent = <<>> /\ c.waits = <<>> /\ c.outcomes = <<>> /\ c.attempt = 0
    \/ /\ c.pc # "idle" /\ ~ValidationEnded(c)
       /\ \A n \in 1..(k - 1) : Retryable(c.outcomes[n])
       /\ \A n \in 1..Len(c.sent) :
             c.sent[n] = [ client |-> n, method |-> "GET",
                           url |-> proc.API_BASE_URL \o c.endpoint,
                           headers |-> JObj(<<KV("X-API-Key", JStr(proc.API_KEY))>>),
                           params |-> c.params, timeout |-> c.timeout ]
       /\ c.attempt = Len(c.sent) - 1
       /\ \/ /\ c.pc = "awaiting" \/ (c.pc = "cancelled" /\ Len(c.sent) = k + 1)
             /\ Len(c.sent) = k + 1 /\ k < 3
             /\ k > 0 => Retryable(c.outcomes[k])
             /\ c.waits = SoloWaits(k)
             /\ c.gw = NoGw /\ c.result = NoResult
          \/ /\ c.pc = "sleeping" \/ (c.pc = "cancelled" /\ Len(c.sent) = k)
             /\ Len(c.sent) = k /\ k \in {1, 2}
             /\ Retryable(c.outcomes[k])
             /\ c.waits = SoloWaits(k)
             /\ c.gw = NoGw /\ c.result = NoResult
          \/ /\ c.pc = "done"
             /\ Len(c.sent) = k /\ k \in {1, 2, 3}
             /\ ~Retryable(c.outcomes[k]) \/ k = 3
             /\ c.waits = SoloWaits(k - 1)
             /\ c.gw = TryExcept(c.outcomes[k], k - 1, c.timeout)
             /\ SoloResult(c)

\* C15: in any interleaving of concurrent tool invocations every step changes
\* the state of one invocation only, and each invocation's attempt counter,
\* requests, waits and payload are those of the same invocation running alone
\* against the same outcomes for its own requests.
C15_NoInterference ==
    [][/\ Cardinality({i \in Calls : inv'[i] # inv[i]}) <= 1
       /\ \A i \in Calls : Solo(inv'[i])]_vars

\* two invocations are in progress at once, one retrying while the other
\* has already been answered
C15_Witness ==
    \E i, j \in Calls :
        /\ i # j
        /\ inv[i].pc = "sleeping" /\ Len(inv[i].waits) = 2
        /\ inv[j].pc = "done" /\ Len(inv[j].outcomes) = 3
        /\ inv[j].gw.kind = "return"

----------------------------------------------------------------------------
(* Properties of start-up and of the requests                              *)

\* os.getenv gave None or ""
Unset(v) == v.t = "null" \/ (v.t = "str" /\ v.s = "")

\* C16: when API_BASE_URL or API_KEY is absent or empty at start-up the
\* process exits with a failure status before the protocol server runs and
\* before any tool invocation is served; tools are served only when both are
\* set.
C16_StartupRequiresConfig ==
    LET missing == Unset(proc.env.API_BASE_URL) \/ Unset(proc.env.API_KEY) IN
    /\ proc.state \in {"starting", "serving", "exited"}
    /\ missing =>
          /\ proc.state # "serving"
          /\ \A i \in Calls : inv[i].pc = "idle" /\ inv[i].sent = <<>>
    /\ proc.state = "exited" => missing /\ proc.exit_code = 1
    /\ proc.state = "serving" => ~missing
    /\ (\E i \in Calls : inv[i].pc # "idle") => proc.state = "serving" /\ ~missing

\* the process has exited because only the key was empty
C16_Witness ==
    /\ proc.state = "exited"
    /\ proc.exit_code = 1
    /\ proc.env.API_BASE_URL = [t |-> "str", s |-> "https://api.test"]
    /\ proc.env.API_KEY = [t |-> "str", s |-> ""]

\* C17: every attempt of one gateway call is given the same full per-call
\* timeout, 60 for get_recording and 30 for list_recordings, on a client
\* constructed for that attempt; a later attempt's timeout is never reduced by
\* earlier attempts or backoff waits.
C17_FreshTimeoutPerAttempt ==
    \A i \in Calls :
        LET c == inv[i] IN
        /\ \A n \in 1..Len(c.sent) :
              /\ c.sent[n].timeout = IF c.tool = "get_recording" THEN 60 ELSE 30
              /\ c.sent[n].timeout = c.sent[1].timeout
        /\ \A m, n \in 1..Len(c.sent) :
              m # n => c.sent[m].client # c.sent[n].client

\* get_recording issued its third attempt after waiting 1 and 2 time units
C17_Witness ==
    \E i \in Calls :
        /\ inv[i].tool = "get_recording"
        /\ Len(inv[i].sent) = 3
        /\ inv[i].waits = <<1, 2>>
        /\ inv[i].sent[3].timeout = 60

\* t is s without its leading and trailing whitespace
IsTrimOf(t, s) ==
    \E a, b \in 1..Len(s) :
        /\ a <= b
        /\ t = SubSeq(s, a, b)
        /\ SubSeq(s, a, a) \notin {" ", "\t", "\n"}
        /\ SubSeq(s, b, b) \notin {" ", "\t", "\n"}
        /\ \A k \in 1..(a - 1) : SubSeq(s, k, k) \in {" ", "\t", "\n"}
        /\ \A k \in (b + 1)..Len(s) : SubSeq(s, k, k) \in {" ", "\t", "\n"}

\* C18: for every recording_id with a non-whitespace character get_recording
\* calls the gateway on /recordings/{id} with id the input trimmed of
\* surrounding whitespace, and on gateway failure the recording_id echoed in
\* the error payload is that trimmed id, not the raw input.
C18_TrimmedId ==
    \A i \in Calls :
        LET c == inv[i] IN
        (c.tool = "get_recording" /\ ~WhitespaceOnly(c.arg_id)) =>
            /\ c.sent # <<>>
            /\ \A n \in 1..Len(c.sent) :
                  \E t \in {c.recording_id} :
                      /\ IsTrimOf(t, c.arg_id)
                      /\ c.sent[n].url = proc.API_BASE_URL \o "/recordings/" \o t
            /\ GatewayFailed(c) =>
                  /\ DictHas(c.result.json, "recording_id")
                  /\ DictGet(c.result.json, "recording_id").t = "str"
                  /\ IsTrimOf(DictGet(c.result.json, "recording_id").s, c.arg_id)

\* get_recording("r ") failed in the gateway and echoed "r"
C18_Witness ==
    \E i \in Calls :
        /\ inv[i].tool = "get_recording"
        /\ inv[i].arg_id = "r "
        /\ GatewayFailed(inv[i])
        /\ DictGet(inv[i].result.json, "recording_id") = [t |-> "str", s |-> "r"]

\* C19: when the 3 attempts of one call fail with a mix of timeouts and
\* network errors, the final error is the timeout error if the 3rd attempt
\* timed out and the network error if it was a connection error, whatever the
\* first two failures were.
C19_LastFailureDecides ==
    \A i \in Calls :
        LET c == inv[i] IN
        (Len(c.outcomes) = 3 /\ \A n \in 1..3 : Retryable(c.outcomes[n])) =>
            /\ c.pc = "done" /\ c.gw.kind = "raise"
            /\ c.outcomes[3].kind = "timeout" =>
                  /\ SubSeq(c.gw.msg, 1, 23) = "Request timed out after"
                  /\ ~Contains("Failed to connect", c.gw.msg)
            /\ c.outcomes[3].kind = "request_error" =>
                  /\ SubSeq(c.gw.msg, 1, 26) = "Failed to connect to API: "
                  /\ ~Contains("timed out", c.gw.msg)

\* two connection errors, then a timeout: the call ended with the timeout error
C19_Witness ==
    \E i \in Calls :
        /\ Len(inv[i].outcomes) = 3
        /\ inv[i].outcomes[1].kind = "request_error"
        /\ inv[i].outcomes[2].kind = "request_error"
        /\ inv[i].outcomes[3].kind = "timeout"
        /\ SubSeq(inv[i].gw.msg, 1, 23) = "Request timed out after"

----------------------------------------------------------------------------
(* Termination of the retry loop                                           *)

\* the gateway of invocation c ended inside the loop body, on the attempt
\* whose outcome is the last one recorded
EndedInLoop(c) ==
    /\ Len(c.outcomes) = Len(c.sent)
    /\ Len(c.sent) \in 1..MAX_RETRIES
    /\ c.attempt = Len(c.sent) - 1
    /\ c.gw.kind \in {"return", "raise"}
    /\ c.gw.kind = "raise" =>
          c.gw.msg # "Failed to complete request after all retries"

\* no asyncio.sleep follows the last attempt
NoWaitAfterLast(c) ==
    /\ Len(c.waits) <= MAX_RETRIES - 1
    /\ c.pc = "sleeping" => Len(c.sent) < MAX_RETRIES
    /\ c.pc \in {"awaiting", "done"} /\ c.sent # <<>> => Len(c.waits) < Len(c.sent)

\* C20: when every attempt eventually completes, every uncancelled
\* make_api_request call ends inside the retry loop by returning or raising on
\* an attempt no later than the 3rd, no backoff wait follows the 3rd attempt,
\* and the raise "Failed to complete request after all retries" after the loop
\* is never reached.
C20_TerminatesInsideLoop ==
    /\ [](\A i \in Calls :
            /\ NoWaitAfterLast(inv[i])
            /\ (inv[i].pc = "done" /\ inv[i].sent # <<>>) => EndedInLoop(inv[i])
            /\ inv[i].gw # Raise("Failed to complete request after all retries"))
    /\ (\E i \in Calls : inv[i].pc \in {"awaiting", "sleeping"})
          ~> (\A i \in Calls : inv[i].pc = "done" \/ inv[i].cancel_sent)

\* a call ended on its 3rd attempt, after exactly two waits, by the raise of
\* the RequestError handler
C20_Witness ==
    \E i \in Calls :
        /\ inv[i].pc = "done"
        /\ ~inv[i].cancel_sent
        /\ Len(inv[i].sent) = MAX_RETRIES
        /\ Len(inv[i].waits) = MAX_RETRIES - 1
        /\ inv[i].attempt = MAX_RETRIES - 1
        /\ inv[i].outcomes[MAX_RETRIES].kind = "request_error"
        /\ inv[i].gw.kind = "raise"

====
